---- MODULE Spec2Model ----
(***************************************************************************)
(* Goldilocks gadget layer of stark-verifier (src/snark/chip/              *)
(* goldilocks_chip.rs) and the synthesis passes that drive it              *)
(* (src/snark/verifier_circuit.rs, goldilocks_chip.rs tests).              *)
(*                                                                         *)
(* Field elements do not fit TLC's 32-bit integers, so every value is a    *)
(* BigUint: a little-endian sequence of bytes without trailing zero        *)
(* (zero is << >>), the byte-granular image of num_bigint's u64 digits.    *)
(***************************************************************************)
EXTENDS Integers, Sequences, FiniteSets, TLC

(***************************************************************************)
(* BigUint arithmetic (num_bigint::BigUint, as used through fe_to_big).    *)
(***************************************************************************)

RECURSIVE Norm(_)
Norm(s) ==
    IF s = << >> THEN << >>
    ELSE IF s[Len(s)] = 0 THEN Norm(SubSeq(s, 1, Len(s) - 1))
    ELSE s

RECURSIVE FromNat(_)
FromNat(n) ==
    IF n = 0 THEN << >> ELSE <<n % 256>> \o FromNat(n \div 256)

At(s, i) == IF i >= 1 /\ i <= Len(s) THEN s[i] ELSE 0

Max2(m, n) == IF m >= n THEN m ELSE n

\* columns of small naturals -> bytes, carrying upward
RECURSIVE Carry(_, _, _)
Carry(cols, i, c) ==
    IF i > Len(cols)
    THEN FromNat(c)
    ELSE <<(cols[i] + c) % 256>> \o Carry(cols, i + 1, (cols[i] + c) \div 256)

BigAdd(x, y) ==
    Norm(Carry([i \in 1..Max2(Len(x), Len(y)) |-> At(x, i) + At(y, i)], 1, 0))

\* x - y for x >= y
RECURSIVE Borrow(_, _, _, _)
Borrow(x, y, i, b) ==
    IF i > Len(x)
    THEN << >>
    ELSE LET d == x[i] - At(y, i) - b
         IN  IF d < 0
             THEN <<d + 256>> \o Borrow(x, y, i + 1, 1)
             ELSE <<d>> \o Borrow(x, y, i + 1, 0)

BigSub(x, y) == Norm(Borrow(x, y, 1, 0))

RECURSIVE LessFrom(_, _, _)
LessFrom(x, y, i) ==
    IF i = 0 THEN FALSE
    ELSE IF x[i] # y[i] THEN x[i] < y[i]
    ELSE LessFrom(x, y, i - 1)

\* x < y on normalised values
BigLess(x, y) ==
    IF Len(x) # Len(y) THEN Len(x) < Len(y) ELSE LessFrom(x, y, Len(x))

Min2(m, n) == IF m <= n THEN m ELSE n

\* sum of x[i] * y[k - i + 1] for i in lo..hi
RECURSIVE ColSum(_, _, _, _, _)
ColSum(x, y, k, lo, hi) ==
    IF lo > hi
    THEN 0
    ELSE x[lo] * y[k - lo + 1] + ColSum(x, y, k, lo + 1, hi)

BigMul(x, y) ==
    IF x = << >> \/ y = << >>
    THEN << >>
    ELSE Norm(Carry([k \in 1..(Len(x) + Len(y) - 1) |->
                        ColSum(x, y, k, Max2(1, k - Len(y) + 1), Min2(k, Len(x)))],
                    1, 0))

\* x * 2^(8n)
ShiftBytes(x, n) == IF x = << >> THEN << >> ELSE [i \in 1..n |-> 0] \o x

LowBytes(x, n) == Norm(SubSeq(x, 1, IF Len(x) < n THEN Len(x) ELSE n))

HighBytes(x, n) == IF Len(x) <= n THEN << >> ELSE SubSeq(x, n + 1, Len(x))

(***************************************************************************)
(* Field Value Model: plonky2's GoldilocksField on the host side and the   *)
(* conversions to and from the outer field.  A GoldilocksField is kept as  *)
(* its canonical u64.                                                      *)
(***************************************************************************)
\* p = 2^64 - 2^32 + 1 = 0xFFFFFFFF00000001
GOLDILOCKS_MODULUS == <<1, 0, 0, 0, 255, 255, 255, 255>>

\* x - p until x < p
RECURSIVE SubP(_)
SubP(x) ==
    IF BigLess(x, GOLDILOCKS_MODULUS) THEN x ELSE SubP(BigSub(x, GOLDILOCKS_MODULUS))

\* x mod p.  With x = lo + 2^64 * (h0 + 2^32 * h1), 2^64 = 2^32 - 1 and
\* 2^96 = -1 (mod p):  x = lo + 2^32 * h0 - h0 - h1 (mod p), computed byte by
\* byte on top of p to stay positive.  Longer values fold 2^64 first.
RECURSIVE ReduceP(_)
ReduceP(x) ==
    IF Len(x) <= 8
    THEN SubP(x)
    ELSE IF Len(x) <= 16
    THEN SubP(Norm(Carry([i \in 1..8 |->
                            IF i <= 4
                            THEN x[i] + GOLDILOCKS_MODULUS[i] - At(x, i + 8) - At(x, i + 12)
                            ELSE x[i] + GOLDILOCKS_MODULUS[i] + At(x, i + 4)],
                         1, 0)))
    ELSE LET lo == LowBytes(x, 8)
             hi == HighBytes(x, 8)
         IN  ReduceP(BigSub(BigAdd(lo, ShiftBytes(hi, 4)), hi))

InRange(x) == BigLess(x, GOLDILOCKS_MODULUS)

ZERO == << >>
ONE == <<1>>

\* PrimeField64::to_canonical_u64: the representative below p of a stored u64
to_canonical_u64(g) ==
    IF BigLess(g, GOLDILOCKS_MODULUS) THEN g ELSE BigSub(g, GOLDILOCKS_MODULUS)

GNeg(x) == IF to_canonical_u64(x) = ZERO THEN ZERO ELSE BigSub(GOLDILOCKS_MODULUS, to_canonical_u64(x))
GMul(x, y) == ReduceP(BigMul(x, y))

\* bit i (from 0) of a BigUint: (x >> i) & 1
BitOf(x, i) == (At(x, (i \div 8) + 1) \div (2 ^ (i % 8))) % 2

RECURSIVE BitLenFrom(_, _)
BitLenFrom(x, n) == IF n = 0 \/ BitOf(x, n - 1) = 1 THEN n ELSE BitLenFrom(x, n - 1)
\* bits_u64
BitLen(x) == BitLenFrom(x, 8 * Len(x))

\* The value e had it been named v in body is written
\*     Only({ body : v \in {e} })
\* which computes e once however often body uses v.
Only(S) == CHOOSE v \in S : TRUE

\* Loops are evaluated by halves: the turns lo..hi of a loop are the turns
\* lo..mid followed by the turns mid+1..hi, which keeps the evaluation shallow.
Mid(lo, hi) == (lo + hi) \div 2

\* Field::exp_u64, turns lo..hi of: for j in 0..bits_u64(power), multiply
\* current into product when bit j of power is set, then square current
RECURSIVE ExpTurns(_, _, _, _)
ExpTurns(st, power, lo, hi) ==
    IF lo > hi
    THEN st
    ELSE IF lo = hi
    THEN [product |-> IF BitOf(power, lo) = 1
                      THEN GMul(st.product, st.current)
                      ELSE st.product,
          current |-> GMul(st.current, st.current)]
    ELSE Only({ ExpTurns(left, power, Mid(lo, hi) + 1, hi) :
                left \in {ExpTurns(st, power, lo, Mid(lo, hi))} })

exp_u64(base, power) ==
    ExpTurns([product |-> ONE, current |-> to_canonical_u64(base)],
             power, 0, BitLen(power) - 1).product

\* Field::inverse of a nonzero element: x^(p-2)
inverse(x) == exp_u64(x, BigSub(GOLDILOCKS_MODULUS, <<2>>))

\* 1u64 << i, for i < 64
RECURSIVE Pow2(_)
Pow2(i) == IF i < 8 THEN <<2 ^ i>> ELSE <<0>> \o Pow2(i - 8)

\* F::from(goldilocks.to_canonical_u64())
goldilocks_to_native_fe(g) == to_canonical_u64(g)

\* the lowest u64 digit of fe_to_big(fe), or ZERO when there is no digit
native_fe_to_goldilocks(fe) ==
    IF Len(fe) = 0 THEN ZERO ELSE LowBytes(fe, 8)

(***************************************************************************)
(* Term Composition Primitive (ArithmeticChip).  The circuit under         *)
(* construction is ctx: cells (the wires, each a witness value and whether *)
(* it is a fixed cell), rows (one per apply: the wires a, b, c, r and      *)
(* whether a was assigned fresh and hence range-checked) and eqs (the      *)
(* pairs of wires constrained equal).  A wire is its index in cells.       *)
(***************************************************************************)
EmptyCtx == [cells |-> << >>, rows |-> << >>, eqs |-> << >>]

Assigned(w) == [k |-> "Assigned", w |-> w, v |-> ZERO]
Unassigned(v) == [k |-> "Unassigned", w |-> 0, v |-> v]
Fixed(v) == [k |-> "Fixed", w |-> 0, v |-> v]

ValueOf(ctx, w) == ctx.cells[w].v

NewCell(ctx, v, fixed) ==
    [ctx |-> [ctx EXCEPT !.cells = Append(@, [v |-> v, fixed |-> fixed])],
     out |-> Len(ctx.cells) + 1]

\* an assigned term is copied in, any other term gets a cell of its own
Place(ctx, t) ==
    IF t.k = "Assigned"
    THEN [ctx |-> ctx, out |-> t.w]
    ELSE NewCell(ctx, t.v, t.k = "Fixed")

\* the row of wires a, b, c and the new wire r = a*b + c in Goldilocks
\* arithmetic, r computed by the witness generator
Row(ctx, a, b, c, fresh) ==
    [ctx |-> [cells |-> Append(ctx.cells,
                               [v |-> ReduceP(BigAdd(BigMul(ValueOf(ctx, a),
                                                            ValueOf(ctx, b)),
                                                     ValueOf(ctx, c))),
                                fixed |-> FALSE]),
              rows |-> Append(ctx.rows, [a |-> a, b |-> b, c |-> c,
                                         r |-> Len(ctx.cells) + 1, fresh |-> fresh]),
              eqs |-> ctx.eqs],
     a |-> a, b |-> b, c |-> c, r |-> Len(ctx.cells) + 1]

apply(ctx, ta, tb, tc) ==
    Only({ Only({ Only({ Row(pc.ctx, pa.out, pb.out, pc.out, ta.k = "Unassigned") :
                         pc \in {Place(pb.ctx, tc)} }) :
                  pb \in {Place(pa.ctx, tb)} }) :
           pa \in {Place(ctx, ta)} })

assign_fixed(ctx, v) == NewCell(ctx, v, TRUE)

arith_assign_value(ctx, v) == NewCell(ctx, v, FALSE)

arith_assert_equal(ctx, lhs, rhs) == [ctx EXCEPT !.eqs = Append(@, <<lhs, rhs>>)]

\* the gate a*b + c = q*p + r with r in range, and the range check of a fresh a
RowHolds(ctx, row) ==
    /\ ValueOf(ctx, row.r) =
         ReduceP(BigAdd(BigMul(ValueOf(ctx, row.a), ValueOf(ctx, row.b)),
                        ValueOf(ctx, row.c)))
    /\ row.fresh => InRange(ValueOf(ctx, row.a))

\* MockProver::assert_satisfied
Satisfied(ctx) ==
    /\ \A i \in 1..Len(ctx.rows) : RowHolds(ctx, ctx.rows[i])
    /\ \A i \in 1..Len(ctx.eqs) :
         ValueOf(ctx, ctx.eqs[i][1]) = ValueOf(ctx, ctx.eqs[i][2])

(***************************************************************************)
(* Goldilocks gadget layer (GoldilocksChip).  Every gadget takes the       *)
(* circuit and returns the circuit it leaves and the wire(s) it returns.   *)
(***************************************************************************)
BitWidth == 64

assign_value(ctx, unassigned) == arith_assign_value(ctx, unassigned)

assign_constant(ctx, constant) == assign_fixed(ctx, goldilocks_to_native_fe(constant))

\* Ok(assigned.r)
ResultOf(assigned) == [ctx |-> assigned.ctx, out |-> assigned.r]

add(ctx, lhs, rhs) ==
    ResultOf(apply(ctx, Assigned(lhs), Fixed(ONE), Assigned(rhs)))

\* sub with the operands of its apply exchanged: lhs * (-1) + rhs
sub_swapped(ctx, lhs, rhs) ==
    ResultOf(apply(ctx, Assigned(lhs), Fixed(goldilocks_to_native_fe(GNeg(ONE))),
                   Assigned(rhs)))

sub(ctx, lhs, rhs) ==
    ResultOf(apply(ctx, Assigned(rhs), Fixed(goldilocks_to_native_fe(GNeg(ONE))),
                   Assigned(lhs)))

mul_add_constant(ctx, a, b, to_add) ==
    ResultOf(apply(ctx, Assigned(a), Assigned(b),
                   Fixed(goldilocks_to_native_fe(to_add))))

mul(ctx, lhs, rhs) == mul_add_constant(ctx, lhs, rhs, ZERO)

mul_const_add(ctx, a, constant, b) ==
    ResultOf(apply(ctx, Assigned(a), Fixed(goldilocks_to_native_fe(constant)),
                   Assigned(b)))

\* halo2wrong_maingate::Term: a wire with a coefficient, a value yet to be
\* assigned with a coefficient, or the zero term
MainGateAssigned(w, coeff) == [k |-> "Assigned", w |-> w, v |-> coeff]
MainGateUnassigned(v, coeff) == [k |-> "Unassigned", w |-> 0, v |-> coeff]
MainGateZero == [k |-> "Zero", w |-> 0, v |-> ZERO]

\* one turn of the loop of compose: the match on the term
ComposeTurn(st, term) ==
    IF term.k = "Assigned"
    THEN Only({ [ctx |-> acc.ctx, out |-> acc.out, panic |-> FALSE] :
                acc \in {mul_const_add(st.ctx, term.w,
                                       native_fe_to_goldilocks(term.v), st.out)} })
    ELSE [ctx |-> st.ctx, out |-> st.out, panic |-> TRUE]

\* turns lo..hi (from 1) of the loop of compose; st.out is acc
RECURSIVE ComposeLoop(_, _, _, _)
ComposeLoop(st, terms, lo, hi) ==
    IF lo > hi \/ st.panic
    THEN st
    ELSE IF lo = hi
    THEN ComposeTurn(st, terms[lo])
    ELSE Only({ ComposeLoop(left, terms, Mid(lo, hi) + 1, hi) :
                left \in {ComposeLoop(st, terms, lo, Mid(lo, hi))} })

\* compose passing over the terms that are not assigned
compose_skipping(ctx, terms, constant) ==
    Only({ ComposeLoop([ctx |-> acc.ctx, out |-> acc.out, panic |-> FALSE],
                       SelectSeq(terms, LAMBDA t : t.k = "Assigned"), 1,
                       Len(SelectSeq(terms, LAMBDA t : t.k = "Assigned"))) :
           acc \in {assign_constant(ctx, constant)} })

compose(ctx, terms, constant) ==
    Only({ ComposeLoop([ctx |-> acc.ctx, out |-> acc.out, panic |-> FALSE],
                       terms, 1, Len(terms)) :
           acc \in {assign_constant(ctx, constant)} })

assert_equal(ctx, lhs, rhs) == arith_assert_equal(ctx, lhs, rhs)

\* assign_bit without its assert_equal
assign_bit_unasserted(ctx, zero, one, bit) ==
    Only({ Only({ [ctx |-> should_zero.ctx, out |-> assigned.a] :
                  should_zero \in {mul(assigned.ctx, assigned.a, assigned.r)} }) :
           assigned \in {apply(ctx, Unassigned(bit), Assigned(one),
                               Fixed(goldilocks_to_native_fe(GNeg(ONE))))} })

\* b = assigned.a, b_minus_one = assigned.r
assign_bit(ctx, zero, one, bit) ==
    Only({ Only({ [ctx |-> assert_equal(should_zero.ctx, should_zero.out, zero),
                   out |-> assigned.a] :
                  should_zero \in {mul(assigned.ctx, assigned.a, assigned.r)} }) :
           assigned \in {apply(ctx, Unassigned(bit), Assigned(one),
                               Fixed(goldilocks_to_native_fe(GNeg(ONE))))} })

\* select adding a back instead of b
select_swapped(ctx, a, b, cond) ==
    Only({ Only({ add(a_minus_b_cond.ctx, a_minus_b_cond.out, a) :
                  a_minus_b_cond \in {mul(a_minus_b.ctx, a_minus_b.out, cond)} }) :
           a_minus_b \in {sub(ctx, a, b)} })

select(ctx, a, b, cond) ==
    Only({ Only({ add(a_minus_b_cond.ctx, a_minus_b_cond.out, b) :
                  a_minus_b_cond \in {mul(a_minus_b.ctx, a_minus_b.out, cond)} }) :
           a_minus_b \in {sub(ctx, a, b)} })

\* the witness generator's inverse: 0 for 0
InverseWitness(fe) ==
    Only({ IF to_canonical_u64(a) = ZERO
           THEN ZERO
           ELSE goldilocks_to_native_fe(inverse(a)) :
           a \in {native_fe_to_goldilocks(fe)} })

\* is_zero returning a_a_inv instead of one - a_a_inv
is_zero_unnegated(ctx, a) ==
    Only({ Only({ Only({ Only({ [ctx |-> assert_equal(out_a.ctx, out_a.out, assigned.c),
                                 out |-> assigned.r] :
                                out_a \in {mul(out.ctx, out.out, a)} }) :
                         out \in {sub(one.ctx, one.out, assigned.r)} }) :
                  one \in {assign_constant(assigned.ctx, ONE)} }) :
           assigned \in {apply(ctx, Assigned(a),
                               Unassigned(InverseWitness(ValueOf(ctx, a))),
                               Fixed(ZERO))} })

\* the constraints of is_zero with out * a computed from a_a_inv instead
is_zero_on_product(ctx, a, a_inv) ==
    Only({ Only({ Only({ Only({ [ctx |-> assert_equal(out_a.ctx, out_a.out, assigned.c),
                                 out |-> out.out] :
                                out_a \in {mul(out.ctx, assigned.r, a)} }) :
                         out \in {sub(one.ctx, one.out, assigned.r)} }) :
                  one \in {assign_constant(assigned.ctx, ONE)} }) :
           assigned \in {apply(ctx, Assigned(a), Unassigned(a_inv), Fixed(ZERO))} })

\* the constraints of is_zero over the value a_inv assigned to its witness
\* cell; a_a_inv = assigned.r, zero = assigned.c
is_zero_with(ctx, a, a_inv) ==
    Only({ Only({ Only({ Only({ [ctx |-> assert_equal(out_a.ctx, out_a.out, assigned.c),
                                 out |-> out.out] :
                                out_a \in {mul(out.ctx, out.out, a)} }) :
                         out \in {sub(one.ctx, one.out, assigned.r)} }) :
                  one \in {assign_constant(assigned.ctx, ONE)} }) :
           assigned \in {apply(ctx, Assigned(a), Unassigned(a_inv), Fixed(ZERO))} })

\* is_zero as the witness generator runs it
is_zero(ctx, a) == is_zero_with(ctx, a, InverseWitness(ValueOf(ctx, a)))

is_equal(ctx, a, b) ==
    Only({ is_zero(a_mimus_b.ctx, a_mimus_b.out) : a_mimus_b \in {sub(ctx, a, b)} })

\* the 64 bit values of the canonical u64 of x
BitValue(fe) ==
    Only({ [i \in 1..BitWidth |-> IF BitOf(x, i - 1) = 1 THEN ONE ELSE ZERO] :
           x \in {to_canonical_u64(native_fe_to_goldilocks(fe))} })

\* bit_value.iter().map(assign_bit), turns lo..hi; st.out are the wires so far
RECURSIVE AssignBits(_, _, _, _, _, _)
AssignBits(st, zero, one, bit_value, lo, hi) ==
    IF lo > hi
    THEN st
    ELSE IF lo = hi
    THEN Only({ [ctx |-> bit.ctx, out |-> Append(st.out, bit.out)] :
                bit \in {assign_bit(st.ctx, zero, one, bit_value[lo])} })
    ELSE Only({ AssignBits(left, zero, one, bit_value, Mid(lo, hi) + 1, hi) :
                left \in {AssignBits(st, zero, one, bit_value, lo, Mid(lo, hi))} })

\* the fold of to_bits and from_bits, turns lo..hi (from 1); st.out is acc:
\* acc' = bit * (1 << i) + acc.  The folds here run over at most 64 bits, so
\* the shift never overflows.
RECURSIVE FoldBits(_, _, _, _)
FoldBits(st, bits, lo, hi) ==
    IF lo > hi
    THEN st
    ELSE IF lo = hi
    THEN ResultOf(apply(st.ctx, Assigned(bits[lo]), Fixed(Pow2(lo - 1)),
                        Assigned(st.out)))
    ELSE Only({ FoldBits(left, bits, Mid(lo, hi) + 1, hi) :
                left \in {FoldBits(st, bits, lo, Mid(lo, hi))} })

\* bit_assigned[0..number_of_bits].to_vec(), a panic when the slice is out of range
SliceOf(ctx, bit_assigned, number_of_bits) ==
    IF number_of_bits > Len(bit_assigned)
    THEN [ctx |-> ctx, out |-> << >>, panic |-> TRUE]
    ELSE [ctx |-> ctx, out |-> SubSeq(bit_assigned, 1, number_of_bits),
          panic |-> FALSE]

\* to_bits decomposing only the bits it returns
to_bits_partial(ctx, composed, number_of_bits) ==
    Only({ Only({ Only({ Only({
        SliceOf(assert_equal(acc.ctx, acc.out, composed), bit_assigned.out,
                number_of_bits) :
        acc \in {FoldBits([ctx |-> bit_assigned.ctx, out |-> zero.out],
                          bit_assigned.out, 1, Len(bit_assigned.out))} }) :
        bit_assigned \in {AssignBits([ctx |-> one.ctx, out |-> << >>], zero.out,
                                     one.out, BitValue(ValueOf(ctx, composed)),
                                     1, Min2(number_of_bits, BitWidth))} }) :
        one \in {assign_constant(zero.ctx, ONE)} }) :
        zero \in {assign_constant(ctx, ZERO)} })

\* the constraints of to_bits over the values bit_value assigned to its 64
\* bit cells
to_bits_with(ctx, composed, number_of_bits, bit_value) ==
    Only({ Only({ Only({ Only({
        SliceOf(assert_equal(acc.ctx, acc.out, composed), bit_assigned.out,
                number_of_bits) :
        acc \in {FoldBits([ctx |-> bit_assigned.ctx, out |-> zero.out],
                          bit_assigned.out, 1, Len(bit_assigned.out))} }) :
        bit_assigned \in {AssignBits([ctx |-> one.ctx, out |-> << >>], zero.out,
                                     one.out, bit_value, 1, BitWidth)} }) :
        one \in {assign_constant(zero.ctx, ONE)} }) :
        zero \in {assign_constant(ctx, ZERO)} })

\* to_bits as the witness generator runs it
to_bits(ctx, composed, number_of_bits) ==
    to_bits_with(ctx, composed, number_of_bits, BitValue(ValueOf(ctx, composed)))

\* from_bits folding from one instead of zero
from_bits_from_one(ctx, bits) ==
    FoldBits(assign_constant(ctx, ONE), bits, 1, Len(bits))

from_bits(ctx, bits) ==
    FoldBits(assign_constant(ctx, ZERO), bits, 1, Len(bits))

\* turns lo..hi of: for _ in 0..power_log { result = mul(result, result) }
RECURSIVE SquareTurns(_, _, _)
SquareTurns(st, lo, hi) ==
    IF lo > hi
    THEN st
    ELSE IF lo = hi
    THEN mul(st.ctx, st.out, st.out)
    ELSE Only({ SquareTurns(left, Mid(lo, hi) + 1, hi) :
                left \in {SquareTurns(st, lo, Mid(lo, hi))} })

\* exp_power_of_2 with the loop 0..=power_log
exp_power_of_2_inclusive(ctx, a, power_log) ==
    SquareTurns([ctx |-> ctx, out |-> a], 0, power_log)

exp_power_of_2(ctx, a, power_log) ==
    SquareTurns([ctx |-> ctx, out |-> a], 0, power_log - 1)

\* 1u64 << i: a shift by 64 or more panics in a debug build and wraps the
\* shift amount in a release build
ShlOverflows(i, build) == i >= BitWidth /\ build = "debug"
Shl1(i) == Pow2(i % BitWidth)

\* one turn of the loop of exp_from_bits, x the accumulator
ExpTurn(ctx, base, x, one, bit, i, build) ==
    Only({ IF ShlOverflows(i, build)
           THEN [ctx |-> is_zero_bit.ctx, out |-> x, panic |-> TRUE]
           ELSE Only({ Only({ Only({ [ctx |-> next.ctx, out |-> next.out,
                                      panic |-> FALSE] :
                       next \in {mul(multiplicand.ctx, x, multiplicand.out)} }) :
                       multiplicand \in {select(base_i.ctx, one, base_i.out,
                                                is_zero_bit.out)} }) :
                       base_i \in {assign_constant(is_zero_bit.ctx,
                                                   exp_u64(base, Shl1(i)))} }) :
           is_zero_bit \in {is_zero(ctx, bit)} })

\* turns lo..hi (from 0) of the loop of exp_from_bits; st.out is x
RECURSIVE ExpLoop(_, _, _, _, _, _, _)
ExpLoop(st, base, one, power_bits, lo, hi, build) ==
    IF lo > hi \/ st.panic
    THEN st
    ELSE IF lo = hi
    THEN ExpTurn(st.ctx, base, st.out, one, power_bits[lo + 1], lo, build)
    ELSE Only({ ExpLoop(left, base, one, power_bits, Mid(lo, hi) + 1, hi, build) :
                left \in {ExpLoop(st, base, one, power_bits, lo, Mid(lo, hi), build)} })

exp_from_bits(ctx, base, power_bits, build) ==
    Only({ Only({ ExpLoop([ctx |-> one.ctx, out |-> x.out, panic |-> FALSE], base,
                          one.out, power_bits, 0, Len(power_bits) - 1, build) :
                  one \in {assign_constant(x.ctx, ONE)} }) :
           x \in {assign_constant(ctx, ONE)} })

(***************************************************************************)
(* Synthesis passes.  circuit is the Circuit being synthesized: "Test" is  *)
(* tests::TestCircuit with its two constants and its gadget call left      *)
(* open, "Verifier" is verifier_circuit::Verifier.  events is the order of *)
(* the calls made on the chip during the pass.                             *)
(***************************************************************************)
VARIABLES
    circuit,        \* "Test" or "Verifier"
    pc,             \* position in synthesize
    ctx,            \* the circuit built so far
    events,         \* calls made so far, in order
    x, y,           \* Test: the two Goldilocks constants
    a, b,           \* Test: their wires
    arg,            \* Test: the last gadget's scalar argument
    out,            \* Test: the wires the first gadget returned
    bits,           \* Test: the wires handed to from_bits or exp_from_bits
    res,            \* Test: the wire from_bits or exp_from_bits returned
    terms,          \* Test: the terms handed to compose
    instances,      \* Verifier: self.instances
    public_inputs,  \* Verifier: assigned_proof_with_pis.public_inputs
    exposed         \* Verifier: expose_public calls, [row, wire]

vars == <<circuit, pc, ctx, events, x, y, a, b, arg, out, bits, res, terms,
          instances, public_inputs, exposed>>

MaxSmall == 2
MaxBits == 2
MaxPowerLog == 3
MaxInstances == 2
MaxTerms == 2

\* Goldilocks values: the smallest, the largest, and the tests' constants
Vals ==
    {FromNat(n) : n \in 0..MaxSmall}
    \cup {BigSub(GOLDILOCKS_MODULUS, FromNat(n)) : n \in 1..MaxSmall}
    \cup {FromNat(3), FromNat(5), Pow2(32)}

\* witnesses handed to assign_bit: also non-boolean and out-of-range ones
BitWitnesses ==
    Vals \cup {GOLDILOCKS_MODULUS, BigAdd(GOLDILOCKS_MODULUS, ONE),
               <<0, 0, 0, 0, 0, 0, 0, 0, 1>>}

\* values a prover may assign to the witness cell of is_zero(v): the values,
\* the honest witness, and the honest witness with p added
InverseWitnesses(v) ==
    Vals \cup {InverseWitness(v), BigAdd(InverseWitness(v), GOLDILOCKS_MODULUS)}

\* the low 64 bits of u, as the values of 64 bit cells
Bits64(u) == [i \in 1..BitWidth |-> IF BitOf(u, i - 1) = 1 THEN ONE ELSE ZERO]

\* 64 boolean values a prover may assign to the bit cells of to_bits(v): the
\* bits of v, of v + p, of v + 1 and of 0
ProverPatterns(v) ==
    {Bits64(v), Bits64(BigAdd(v, GOLDILOCKS_MODULUS)), Bits64(BigAdd(v, ONE)),
     Bits64(ZERO)}

\* the terms handed to compose, over the wires a and b
Terms(wa, wb) ==
    {MainGateAssigned(wa, FromNat(2)),
     MainGateAssigned(wb, BigSub(GOLDILOCKS_MODULUS, ONE)),
     MainGateUnassigned(ONE, ONE),
     MainGateZero}

NumberOfBits == (0..MaxBits) \cup {BitWidth, BitWidth + 1}

Builds == {"debug", "release"}

\* the builds behave alike unless a shift overflows
BuildsThatDiffer(n) == IF n > BitWidth THEN Builds ELSE {"release"}

RECURSIVE SeqsUpTo(_, _)
SeqsUpTo(S, n) ==
    IF n = 0 THEN {<< >>}
    ELSE LET shorter == SeqsUpTo(S, n - 1)
         IN  shorter \cup {Append(s, e) : s \in {t \in shorter : Len(t) = n - 1}, e \in S}

Init ==
    /\ circuit \in {"Test", "Verifier"}
    /\ pc = "start"
    /\ ctx = EmptyCtx
    /\ events = << >>
    /\ IF circuit = "Test"
       THEN x \in Vals /\ y \in Vals /\ instances = << >>
       ELSE x = ZERO /\ y = ZERO /\ instances \in SeqsUpTo(Vals, MaxInstances)
    /\ a = 0
    /\ b = 0
    /\ arg = 0
    /\ out = << >>
    /\ bits = << >>
    /\ res = 0
    /\ terms = << >>
    /\ public_inputs = << >>
    /\ exposed = << >>

LastEvent == IF events = << >> THEN "none" ELSE events[Len(events)]

VerifierVars == <<instances, public_inputs, exposed>>

(***************************************************************************)
(* TestCircuit::synthesize: the region assigns two constants and calls a   *)
(* gadget on them, then the table is loaded.                               *)
(***************************************************************************)
AssignConstants ==
    /\ circuit = "Test"
    /\ pc = "start"
    /\ \E ca \in {assign_constant(ctx, x)} :
         \E cb \in {assign_constant(ca.ctx, y)} :
           /\ ctx' = cb.ctx
           /\ a' = ca.out
           /\ b' = cb.out
    /\ events' = events \o <<"assign_constant", "assign_constant">>
    /\ pc' = "region"
    /\ UNCHANGED <<circuit, x, y, arg, out, bits, res, terms, VerifierVars>>

\* the calls named, the last of them a gadget that returns the wires ws
Call(names, c, ws, n) ==
    /\ ctx' = c
    /\ out' = ws
    /\ arg' = n
    /\ events' = events \o names
    /\ pc' = "called"
    /\ UNCHANGED <<circuit, x, y, a, b, bits, res, terms, VerifierVars>>

InRegion == circuit = "Test" /\ pc = "region"

Add ==
    /\ InRegion
    /\ \E r \in {add(ctx, a, b)} : Call(<<"add">>, r.ctx, <<r.out>>, 0)

Sub ==
    /\ InRegion
    /\ \E r \in {sub(ctx, a, b)} : Call(<<"sub">>, r.ctx, <<r.out>>, 0)

Mul ==
    /\ InRegion
    /\ \E r \in {mul(ctx, a, b)} : Call(<<"mul">>, r.ctx, <<r.out>>, 0)

IsZero ==
    /\ InRegion
    /\ \E r \in {is_zero(ctx, a)} : Call(<<"is_zero">>, r.ctx, <<r.out>>, 0)

\* is_zero with the witness a prover chose
IsZeroProver ==
    /\ InRegion
    /\ \E a_inv \in InverseWitnesses(x) :
         \E r \in {is_zero_with(ctx, a, a_inv)} :
             Call(<<"is_zero_prover">>, r.ctx, <<r.out>>, 0)

\* compose over the wires a and b, the constant being y
Compose ==
    /\ InRegion
    /\ \E ts \in SeqsUpTo(Terms(a, b), MaxTerms) :
         \E r \in {compose(ctx, ts, y)} :
             /\ ctx' = r.ctx
             /\ out' = IF r.panic THEN << >> ELSE <<r.out>>
             /\ terms' = ts
             /\ pc' = IF r.panic THEN "panic" ELSE "called"
    /\ arg' = 0
    /\ events' = Append(events, "compose")
    /\ UNCHANGED <<circuit, x, y, a, b, bits, res, VerifierVars>>

IsEqual ==
    /\ InRegion
    /\ \E r \in {is_equal(ctx, a, b)} : Call(<<"is_equal">>, r.ctx, <<r.out>>, 0)

\* cond is a constant 0 or 1, as in the test
Select ==
    /\ InRegion
    /\ \E c \in 0..1 :
         \E cond \in {assign_constant(ctx, FromNat(c))} :
         \E r \in {select(cond.ctx, a, b, cond.out)} :
             Call(<<"assign_constant", "select">>, r.ctx, <<r.out>>, c)

AssignBit ==
    /\ InRegion
    /\ \E bit \in BitWitnesses :
         \E zero \in {assign_constant(ctx, ZERO)} :
         \E one \in {assign_constant(zero.ctx, ONE)} :
         \E r \in {assign_bit(one.ctx, zero.out, one.out, bit)} :
             Call(<<"assign_constant", "assign_constant", "assign_bit">>, r.ctx, <<r.out>>, 0)

ExpPowerOf2 ==
    /\ InRegion
    /\ \E power_log \in 0..MaxPowerLog :
         \E r \in {exp_power_of_2(ctx, a, power_log)} :
             Call(<<"exp_power_of_2">>, r.ctx, <<r.out>>, power_log)

ToBits ==
    /\ InRegion
    /\ \E number_of_bits \in NumberOfBits :
         \E r \in {to_bits(ctx, a, number_of_bits)} :
             /\ ctx' = r.ctx
             /\ out' = r.out
             /\ arg' = number_of_bits
             /\ events' = Append(events, "to_bits")
             /\ pc' = IF r.panic THEN "panic" ELSE "called"
    /\ UNCHANGED <<circuit, x, y, a, b, bits, res, terms, VerifierVars>>

\* to_bits(a, 64) with the bit cells assigned by a prover
ToBitsProver ==
    /\ InRegion
    /\ \E bit_value \in ProverPatterns(x) :
         \E r \in {to_bits_with(ctx, a, BitWidth, bit_value)} :
             Call(<<"to_bits_prover">>, r.ctx, r.out, BitWidth)

AfterToBits == circuit = "Test" /\ pc = "called" /\ LastEvent = "to_bits"

FromBits ==
    /\ AfterToBits
    /\ \E r \in {from_bits(ctx, out)} :
           /\ ctx' = r.ctx
           /\ res' = r.out
    /\ bits' = out
    /\ events' = Append(events, "from_bits")
    /\ pc' = "chained"
    /\ UNCHANGED <<circuit, x, y, a, b, arg, out, terms, VerifierVars>>

\* base is the constant y; the bits are to_bits' wires, followed by the first
\* of them again when extra = 1
ExpFromBits ==
    /\ AfterToBits
    /\ \E extra \in 0..1 :
         /\ extra <= Len(out)
         /\ \E build \in BuildsThatDiffer(Len(out) + extra) :
            \E r \in {exp_from_bits(ctx, y, out \o SubSeq(out, 1, extra), build)} :
                /\ ctx' = r.ctx
                /\ res' = r.out
                /\ bits' = out \o SubSeq(out, 1, extra)
                /\ pc' = IF r.panic THEN "panic" ELSE "chained"
    /\ events' = Append(events, "exp_from_bits")
    /\ UNCHANGED <<circuit, x, y, a, b, arg, out, terms, VerifierVars>>

\* the table loaded a second time
LoadTableTwice ==
    /\ circuit = "Test"
    /\ pc \in {"called", "chained"}
    /\ events' = events \o <<"load_table", "load_table">>
    /\ pc' = "done"
    /\ UNCHANGED <<circuit, ctx, x, y, a, b, arg, out, bits, res, terms, VerifierVars>>

LoadTable ==
    /\ circuit = "Test"
    /\ pc \in {"called", "chained"}
    /\ events' = Append(events, "load_table")
    /\ pc' = "done"
    /\ UNCHANGED <<circuit, ctx, x, y, a, b, arg, out, bits, res, terms, VerifierVars>>

(***************************************************************************)
(* Verifier::synthesize.  The wires of the proof and of the verification   *)
(* key, and the constraints of the plonk verifier chip, are built by code  *)
(* outside these files; only the calls are recorded.                       *)
(***************************************************************************)
TestVars == <<x, y, a, b, arg, out, bits, res, terms>>

\* instances.iter().map(assign_value), turns lo..hi
RECURSIVE AssignValues(_, _, _, _)
AssignValues(st, values, lo, hi) ==
    IF lo > hi
    THEN st
    ELSE IF lo = hi
    THEN Only({ [ctx |-> w.ctx, out |-> Append(st.out, w.out)] :
                w \in {assign_value(st.ctx, values[lo])} })
    ELSE LET left == AssignValues(st, values, lo, Mid(lo, hi))
         IN  AssignValues(left, values, Mid(lo, hi) + 1, hi)

VLoadTable ==
    /\ circuit = "Verifier"
    /\ pc = "start"
    /\ events' = Append(events, "load_table")
    /\ pc' = "loaded"
    /\ UNCHANGED <<circuit, ctx, TestVars, VerifierVars>>

AssignProofWithPis ==
    /\ circuit = "Verifier"
    /\ pc = "loaded"
    /\ \E r \in {AssignValues([ctx |-> ctx, out |-> << >>], instances, 1,
                             Len(instances))} :
           /\ ctx' = r.ctx
           /\ public_inputs' = r.out
    /\ events' = events \o [i \in 1..Len(instances) |-> "assign_value"]
                        \o <<"assign_proof">>
    /\ pc' = "proof"
    /\ UNCHANGED <<circuit, TestVars, instances, exposed>>

AssignVerificationKey ==
    /\ circuit = "Verifier"
    /\ pc = "proof"
    /\ events' = Append(events, "assign_verification_key")
    /\ pc' = "vk"
    /\ UNCHANGED <<circuit, ctx, TestVars, VerifierVars>>

VerifyProof ==
    /\ circuit = "Verifier"
    /\ pc = "vk"
    /\ events' = events \o <<"get_public_inputs_hash", "get_challenges",
                             "verify_proof_with_challenges">>
    /\ pc' = "verified"
    /\ UNCHANGED <<circuit, ctx, TestVars, VerifierVars>>

\* the loop pairing the rows with the public inputs from the last one down
ExposePublicReversed ==
    /\ circuit = "Verifier"
    /\ pc = "verified"
    /\ Len(exposed) < Len(instances)
    /\ exposed' = Append(exposed, [row |-> Len(exposed),
                                   wire |-> public_inputs[Len(instances) - Len(exposed)]])
    /\ events' = Append(events, "expose_public")
    /\ UNCHANGED <<circuit, pc, ctx, TestVars, instances, public_inputs>>

\* one turn of the loop over (0..instances.len()).zip_eq(public_inputs)
ExposePublic ==
    /\ circuit = "Verifier"
    /\ pc = "verified"
    /\ Len(exposed) < Len(instances)
    /\ exposed' = Append(exposed, [row |-> Len(exposed),
                                   wire |-> public_inputs[Len(exposed) + 1]])
    /\ events' = Append(events, "expose_public")
    /\ UNCHANGED <<circuit, pc, ctx, TestVars, instances, public_inputs>>

VDone ==
    /\ circuit = "Verifier"
    /\ pc = "verified"
    /\ Len(exposed) = Len(instances)
    /\ pc' = "done"
    /\ UNCHANGED <<circuit, ctx, events, TestVars, VerifierVars>>

Next ==
    \/ AssignConstants
    \/ Add
    \/ Sub
    \/ Mul
    \/ IsZero
    \/ IsZeroProver
    \/ Compose
    \/ IsEqual
    \/ Select
    \/ AssignBit
    \/ ExpPowerOf2
    \/ ToBits
    \/ ToBitsProver
    \/ FromBits
    \/ LoadTable
    \/ VLoadTable
    \/ AssignProofWithPis
    \/ AssignVerificationKey
    \/ VerifyProof
    \/ ExposePublic
    \/ VDone

Spec == Init /\ [][Next]_vars

(***************************************************************************)
(* The test circuit with exp_from_bits applied to the bits of x, the base  *)
(* being the constant y.                                                   *)
(***************************************************************************)
ExpVals ==
    {FromNat(n) : n \in 0..MaxSmall} \cup {BigSub(GOLDILOCKS_MODULUS, ONE)}

InitExp ==
    /\ circuit = "Test"
    /\ pc = "start"
    /\ ctx = EmptyCtx
    /\ events = << >>
    /\ x \in ExpVals
    /\ y \in ExpVals
    /\ instances = << >>
    /\ a = 0
    /\ b = 0
    /\ arg = 0
    /\ out = << >>
    /\ bits = << >>
    /\ res = 0
    /\ terms = << >>
    /\ public_inputs = << >>
    /\ exposed = << >>

NextExp ==
    \/ AssignConstants
    \/ ToBits
    \/ ExpFromBits
    \/ LoadTable

SpecExp == InitExp /\ [][NextExp]_vars

(***************************************************************************)
(* Reference arithmetic of the prime field, computed apart from the model  *)
(* of the chip: x mod p bit by bit from the top, and powers from the top   *)
(* bit of the exponent down.                                               *)
(***************************************************************************)
\* the bits hi down to lo of x shifted into r, reduced at every step
RECURSIVE RefModTurns(_, _, _, _)
RefModTurns(r, v, hi, lo) ==
    IF hi < lo
    THEN r
    ELSE IF hi = lo
    THEN Only({ IF BigLess(d, GOLDILOCKS_MODULUS)
                THEN d
                ELSE BigSub(d, GOLDILOCKS_MODULUS) :
                d \in {BigAdd(BigAdd(r, r), FromNat(BitOf(v, hi)))} })
    ELSE Only({ RefModTurns(top, v, Mid(lo, hi), lo) :
                top \in {RefModTurns(r, v, hi, Mid(lo, hi) + 1)} })

RefMod(v) == RefModTurns(ZERO, v, 8 * Len(v) - 1, 0)

RefAdd(u, v) == RefMod(BigAdd(u, v))
RefSub(u, v) == RefMod(BigSub(BigAdd(u, GOLDILOCKS_MODULUS), v))
RefMul(u, v) == RefMod(BigMul(u, v))

\* r^(2^(hi - lo + 1)) * base^(the bits hi down to lo of e)
RECURSIVE RefPowTurns(_, _, _, _, _)
RefPowTurns(r, base, e, hi, lo) ==
    IF hi < lo
    THEN r
    ELSE IF hi = lo
    THEN Only({ IF BitOf(e, hi) = 1 THEN RefMul(sq, base) ELSE sq :
                sq \in {RefMul(r, r)} })
    ELSE Only({ RefPowTurns(top, base, e, Mid(lo, hi), lo) :
                top \in {RefPowTurns(r, base, e, hi, Mid(lo, hi) + 1)} })

\* base^e mod p
RefPow(base, e) == RefPowTurns(ONE, RefMod(base), e, 8 * Len(e) - 1, 0)

(***************************************************************************)
(* What the properties read off the state.                                 *)
(***************************************************************************)
Called(name) == \E i \in 1..Len(events) : events[i] = name

\* the Goldilocks value a wire decodes to
Decode(w) == to_canonical_u64(native_fe_to_goldilocks(ValueOf(ctx, w)))

IsFixed(w, v) == ctx.cells[w].fixed /\ ValueOf(ctx, w) = v

MinusOne == BigSub(GOLDILOCKS_MODULUS, ONE)

(***************************************************************************)
(* Properties                                                              *)
(***************************************************************************)

\* C1: for Goldilocks values x and y in [0, p), the wires add, sub and mul
\* return decode to (x+y) mod p, (x-y) mod p and (x*y) mod p, and the circuit
\* is satisfied; add of the constants p-2 and 3 decodes to 1.
C1_Arithmetic ==
    /\ Called("add") => Decode(out[1]) = RefAdd(x, y) /\ Satisfied(ctx)
    /\ Called("sub") => Decode(out[1]) = RefSub(x, y) /\ Satisfied(ctx)
    /\ Called("mul") => Decode(out[1]) = RefMul(x, y) /\ Satisfied(ctx)
    /\ (Called("add") /\ x = BigSub(GOLDILOCKS_MODULUS, FromNat(2)) /\ y = FromNat(3))
          => Decode(out[1]) = ONE

\* the test of the chip: add of p-2 and 3 has been built, decodes to 1 and is
\* satisfied
C1_Witness ==
    /\ Called("add")
    /\ x = BigSub(GOLDILOCKS_MODULUS, FromNat(2))
    /\ y = FromNat(3)
    /\ Decode(out[1]) = ONE
    /\ Satisfied(ctx)

\* C2: with the honest inverse witness (the inverse of the value, 0 for 0),
\* is_zero returns 1 for 0 and 0 for every other value, is_equal returns 1
\* for equal values and 0 for different ones, and every assertion holds.
C2_ZeroTests ==
    /\ Called("is_zero") =>
         /\ Decode(out[1]) = (IF x = ZERO THEN ONE ELSE ZERO)
         /\ RefMul(x, ValueOf(ctx, ctx.rows[1].b)) = (IF x = ZERO THEN ZERO ELSE ONE)
         /\ Satisfied(ctx)
    /\ Called("is_equal") =>
         /\ Decode(out[1]) = (IF x = y THEN ONE ELSE ZERO)
         /\ ctx.rows[2].a = ctx.rows[1].r
         /\ Satisfied(ctx)

\* is_equal has been built on two different values and returned 0
C2_Witness ==
    /\ Called("is_equal")
    /\ x # y
    /\ Decode(out[1]) = ZERO
    /\ Satisfied(ctx)

\* C3: select(a, b, cond) for cond in {0, 1} returns a wire holding a's
\* value when cond = 1 and b's when cond = 0.
C3_Select ==
    Called("select") =>
        /\ arg \in {0, 1}
        /\ Decode(out[1]) = (IF arg = 1 THEN x ELSE y)
        /\ Satisfied(ctx)

\* select has been built on two different values with cond = 1
C3_Witness ==
    /\ Called("select")
    /\ arg = 1
    /\ x # y
    /\ Decode(out[1]) = x

\* C4: from_bits of the 64 wires of to_bits(v, 64) holds v, and the equality
\* to_bits asserts between its reconstruction and v is satisfied.
C4_RoundTrip ==
    (Called("from_bits") /\ arg = BitWidth) =>
        /\ Len(bits) = BitWidth
        /\ Decode(res) = x
        /\ ctx.eqs[Len(ctx.eqs)][2] = a
        /\ ValueOf(ctx, ctx.eqs[Len(ctx.eqs)][1]) = ValueOf(ctx, a)
        /\ Satisfied(ctx)

\* the round trip has been built on the largest value, p - 1
C4_Witness ==
    /\ Called("from_bits")
    /\ arg = BitWidth
    /\ x = MinusOne
    /\ Decode(res) = x

\* the rows to_bits adds, for bit i from 0: the bit and bit - 1, their
\* product, and the fold's step
BitRow(i) == ctx.rows[2 * i + 1]
ProductRow(i) == ctx.rows[2 * i + 2]
FoldRow(i) == ctx.rows[2 * BitWidth + i + 1]

\* bit i is assigned fresh, bit - 1 is computed from it, and bit * (bit - 1)
\* is asserted equal to the constant zero
Booleanity(i) ==
    /\ BitRow(i).fresh
    /\ IsFixed(BitRow(i).b, ONE)
    /\ IsFixed(BitRow(i).c, MinusOne)
    /\ ProductRow(i).a = BitRow(i).a
    /\ ProductRow(i).b = BitRow(i).r
    /\ IsFixed(ProductRow(i).c, ZERO)
    /\ ctx.eqs[i + 1][1] = ProductRow(i).r
    /\ IsFixed(ctx.eqs[i + 1][2], ZERO)

\* step i of the sum: bit i * 2^i + the sum so far
Reconstruction(i) ==
    /\ FoldRow(i).a = BitRow(i).a
    /\ IsFixed(FoldRow(i).b, Pow2(i))
    /\ IF i = 0
       THEN IsFixed(FoldRow(i).c, ZERO)
       ELSE FoldRow(i).c = FoldRow(i - 1).r

AllBitsConstrained ==
    /\ Len(ctx.rows) >= 3 * BitWidth
    /\ Len(ctx.eqs) >= BitWidth + 1
    /\ \A i \in 0..(BitWidth - 1) : Booleanity(i) /\ Reconstruction(i)
    /\ ctx.eqs[BitWidth + 1] = <<FoldRow(BitWidth - 1).r, a>>

\* the wires returned are the low arg bit wires in order, bit i of the value
\* at place i
LowBitsReturned ==
    /\ pc # "panic"
    /\ out = [i \in 1..arg |-> BitRow(i - 1).a]
    /\ \A i \in 1..arg : ValueOf(ctx, out[i]) = FromNat(BitOf(x, i - 1))

\* C5 as stated: for every requested number_of_bits, to_bits constrains all
\* 64 bits, reconstructs and asserts the sum over all 64, and returns the
\* number_of_bits low bit wires in order.
C5_AnyNumberOfBits ==
    Called("to_bits") => AllBitsConstrained /\ LowBitsReturned

\* C5: for every number_of_bits up to 64, to_bits constrains all 64 bits,
\* reconstructs and asserts the sum over all 64, and returns the
\* number_of_bits low bit wires in order; asked for more than 64 it builds
\* the same constraints and then panics on the slice.
C5_ToBits ==
    Called("to_bits") =>
        /\ AllBitsConstrained
        /\ arg <= BitWidth => LowBitsReturned
        /\ arg > BitWidth => pc = "panic"

\* to_bits has returned fewer wires than it constrained
C5_Witness ==
    /\ Called("to_bits")
    /\ arg = 1
    /\ Len(out) = 1
    /\ x = FromNat(1)
    /\ ValueOf(ctx, out[1]) = ONE
    /\ Len(ctx.rows) = 3 * BitWidth

\* C6: exp_power_of_2(a, k) squares exactly k times and returns a wire
\* holding a^(2^k) mod p, the wire a itself when k = 0; exp_power_of_2(5, 3)
\* is 5^8 mod p.
C6_ExpPowerOf2 ==
    Called("exp_power_of_2") =>
        /\ Len(ctx.rows) = arg
        /\ \A i \in 1..arg :
             /\ ctx.rows[i].a = (IF i = 1 THEN a ELSE ctx.rows[i - 1].r)
             /\ ctx.rows[i].b = ctx.rows[i].a
             /\ IsFixed(ctx.rows[i].c, ZERO)
        /\ out[1] = (IF arg = 0 THEN a ELSE ctx.rows[arg].r)
        /\ Decode(out[1]) = RefPow(x, Pow2(arg))
        /\ (x = FromNat(5) /\ arg = 3) => Decode(out[1]) = FromNat(390625)
        /\ Satisfied(ctx)

\* exp_power_of_2(5, 3) has been built and holds 5^8
C6_Witness ==
    /\ Called("exp_power_of_2")
    /\ x = FromNat(5)
    /\ arg = 3
    /\ Len(ctx.rows) = 3
    /\ Decode(out[1]) = FromNat(390625)

\* the sum of bits[i] * 2^i over the places lo..hi (from 0) of bits
RECURSIVE BitsSum(_, _)
BitsSum(lo, hi) ==
    IF lo > hi
    THEN ZERO
    ELSE IF lo = hi
    THEN BigMul(ValueOf(ctx, bits[lo + 1]), Pow2(lo))
    ELSE BigAdd(BitsSum(lo, Mid(lo, hi)), BitsSum(Mid(lo, hi) + 1, hi))

\* C7 as stated: for every constant base and every sequence of bit wires,
\* exp_from_bits returns a wire holding base^(sum of bits[i] * 2^i) mod p.
C7_AnyBits ==
    Called("exp_from_bits") =>
        /\ pc # "panic"
        /\ \A i \in 1..Len(bits) : ValueOf(ctx, bits[i]) \in {ZERO, ONE}
        /\ Decode(res) = RefPow(y, BitsSum(0, Len(bits) - 1))

\* the calls of load_table so far
LoadCalls == {i \in 1..Len(events) : events[i] = "load_table"}

\* C8 as stated: in both passes load_table is called exactly once and only
\* after every other call on the chip.
C8_LoadTableLast ==
    /\ Cardinality(LoadCalls) <= 1
    /\ pc = "done" => Cardinality(LoadCalls) = 1
    /\ \A i \in LoadCalls : i = Len(events) /\ i > 1

\* C8: in both passes load_table is called exactly once; in the test circuit
\* after every gadget call, in the Verifier before every other call.
C8_LoadTableOnce ==
    /\ Cardinality(LoadCalls) <= 1
    /\ pc = "done" => Cardinality(LoadCalls) = 1
    /\ circuit = "Test" => \A i \in LoadCalls : i = Len(events) /\ i > 1
    /\ circuit = "Verifier" => \A i \in 1..Len(events) : i \in LoadCalls <=> i = 1

\* the Verifier's pass has ended, the table loaded first and the proof
\* verified after it
C8_Witness ==
    /\ circuit = "Verifier"
    /\ pc = "done"
    /\ LoadCalls = {1}
    /\ Called("verify_proof_with_challenges")

\* C9: the Verifier exposes its public inputs in order: row i gets the i-th
\* wire assign_value assigned, which holds instances[i]; every wire is exposed
\* once, and only after the constraints of the verification are built.
C9_PublicInputs ==
    circuit = "Verifier" =>
        /\ \A k \in 1..Len(public_inputs) :
             /\ public_inputs[k] = k
             /\ ValueOf(ctx, public_inputs[k]) = instances[k]
        /\ \A k \in 1..Len(exposed) :
             /\ exposed[k].row = k - 1
             /\ exposed[k].wire = public_inputs[k]
        /\ \A j, k \in 1..Len(exposed) : exposed[j].wire = exposed[k].wire => j = k
        /\ Len(exposed) = Cardinality({i \in 1..Len(events) : events[i] = "expose_public"})
        /\ \A i \in 1..Len(events) :
             events[i] = "expose_public" =>
                 \E j \in 1..(i - 1) : events[j] = "verify_proof_with_challenges"
        /\ pc = "done" => Len(exposed) = Len(instances)

\* two different public inputs have been exposed
C9_Witness ==
    /\ circuit = "Verifier"
    /\ pc = "done"
    /\ Len(exposed) = 2
    /\ instances[1] # instances[2]
    /\ ValueOf(ctx, exposed[2].wire) = instances[2]

\* the witness assign_bit was given, and its assertion bit * (bit - 1) = 0
BitWitness == ValueOf(ctx, out[1])
BitAssertionHolds == ValueOf(ctx, ctx.eqs[1][1]) = ValueOf(ctx, ctx.eqs[1][2])

\* C10 as stated: for every witness other than 0 and 1 the assertion
\* bit * (bit - 1) = 0 of assign_bit fails and the circuit is not satisfied.
C10_AssertionFails ==
    (Called("assign_bit") /\ BitWitness \notin {ZERO, ONE}) =>
        ~BitAssertionHolds /\ ~Satisfied(ctx)

\* C10: for every witness other than 0 and 1 the circuit is not satisfied:
\* the assertion bit * (bit - 1) = 0 fails for every such witness below p; a
\* witness for which it holds (p, p + 1) is out of range and fails the range
\* check of the freshly assigned wire.
C10_Booleanity ==
    (Called("assign_bit") /\ BitWitness \notin {ZERO, ONE}) =>
        /\ ~Satisfied(ctx)
        /\ InRange(BitWitness) => ~BitAssertionHolds
        /\ BitAssertionHolds => ~RowHolds(ctx, ctx.rows[1])

\* assign_bit has been given 2
C10_Witness ==
    /\ Called("assign_bit")
    /\ BitWitness = FromNat(2)
    /\ ~BitAssertionHolds
    /\ ~Satisfied(ctx)

\* the value in the witness cell of is_zero and its assertion out * a = 0
InverseSupplied == ValueOf(ctx, ctx.rows[1].b)
ZeroAssertionHolds == ValueOf(ctx, ctx.eqs[1][1]) = ValueOf(ctx, ctx.eqs[1][2])

C12_CanonicalOnly ==
    (Called("to_bits_prover") /\ Satisfied(ctx)) =>
        \A i \in 1..BitWidth : ValueOf(ctx, out[i]) = Bits64(x)[i]

\* the terms of compose before the first that is not assigned
RECURSIVE AssignedPrefix(_)
AssignedPrefix(i) ==
    IF i > Len(terms) \/ terms[i].k # "Assigned" THEN i - 1 ELSE AssignedPrefix(i + 1)

\* the wire compose assigns the constant to: the first cell after a and b
ConstantWire == b + 1

\* the accumulator after i terms
Accumulator(i) == IF i = 0 THEN ConstantWire ELSE ctx.rows[i].r

\* C13: compose starts from assign_constant(constant) and folds the terms in
\* list order, each assigned term adding wire * coefficient to the
\* accumulator; it panics at the first term that is unassigned or zero, and
\* with no terms it returns the constant's wire.
C13_Compose ==
    Called("compose") =>
        /\ IsFixed(ConstantWire, y)
        /\ Len(ctx.rows) = AssignedPrefix(1)
        /\ \A i \in 1..AssignedPrefix(1) :
             /\ ctx.rows[i].a = terms[i].w
             /\ IsFixed(ctx.rows[i].b, terms[i].v)
             /\ ctx.rows[i].c = Accumulator(i - 1)
             /\ Decode(Accumulator(i)) =
                  RefAdd(Decode(Accumulator(i - 1)),
                         RefMul(ValueOf(ctx, terms[i].w), terms[i].v))
        /\ AssignedPrefix(1) < Len(terms) => pc = "panic" /\ out = << >>
        /\ AssignedPrefix(1) = Len(terms) =>
             /\ pc # "panic"
             /\ out = <<Accumulator(Len(terms))>>
             /\ Satisfied(ctx)
        /\ terms = << >> => out = <<ConstantWire>>

\* compose has folded an assigned term and panicked at the zero term after it
C13_Witness ==
    /\ Called("compose")
    /\ Len(terms) = 2
    /\ terms[1].k = "Assigned"
    /\ terms[2].k = "Zero"
    /\ Len(ctx.rows) = 1
    /\ pc = "panic"

====
